---- MODULE Spec2Model ----
(***************************************************************************)
(* anime-image-search: the client class Api and its operations saucenao(), *)
(* iqdb() and uploadToImgur().                                             *)
(*                                                                         *)
(* The repository holds two revisions of the class that the properties     *)
(* below are about:                                                        *)
(*   build "part"  - src/unnamed/part_000 (key on the constructor,         *)
(*                   getSource labelling, no image host helper)            *)
(*   build "index" - src/src/index.ts:212-500 (key in the call options,    *)
(*                   uploadToImgur, no labelling)                          *)
(* (src/src/index.ts:1-210 is build "part" without getSource.)             *)
(* A client is an instance of one of them.  Every operation is an async    *)
(* method with one suspension point, the awaited axios(config): the first  *)
(* action of an operation runs the method up to that await, the second one *)
(* settles the transport promise and runs the method to its end.           *)
(*                                                                         *)
(* handle is the file handle of the current call: createReadStream(image)  *)
(* opens it for an image given as a path, and no line of the class closes  *)
(* it; the stream closes it itself (autoClose) once the transport has read *)
(* the request body to its end.                                            *)
(*                                                                         *)
(* JavaScript strings that the code scans or parses (image arguments,      *)
(* similarity texts, hrefs) are sequences of one-character strings;        *)
(* strings that are only compared or passed on are TLA+ strings.           *)
(***************************************************************************)
EXTENDS Integers, Sequences, FiniteSets, TLC

VARIABLES api, pc, call, request, sent, response, result, handle

vars == <<api, pc, call, request, sent, response, result, handle>>

(***************************************************************************)
(* JavaScript values                                                       *)
(***************************************************************************)

\* `undefined` where a string is expected: not a sequence of characters.
Undefined == <<"undefined">>

\* String(undefined), what 'http:' + undefined concatenates.
UndefinedText == <<"u", "n", "d", "e", "f", "i", "n", "e", "d">>

Digits == <<"0", "1", "2", "3", "4", "5", "6", "7", "8", "9">>

IsDigit(c) == \E d \in 1..10 : Digits[d] = c

DigitValue(c) == (CHOOSE d \in 1..10 : Digits[d] = c) - 1

\* obj[key] of a JavaScript object: undefined when the key is absent.
Has(obj, key) == key \in DOMAIN obj

\* The spread written in the other order, { ...b, ...a }.
SpreadReversed(a, b) ==
  [k \in (DOMAIN a) \cup (DOMAIN b) |-> IF k \in DOMAIN a THEN a[k] ELSE b[k]]

\* { ...a, ...b }: the keys of both, b's value where b has the key.
Spread(a, b) ==
  [k \in (DOMAIN a) \cup (DOMAIN b) |-> IF k \in DOMAIN b THEN b[k] ELSE a[k]]

\* !value for a string-valued property that may be absent: absent or ''.
Falsy(obj, key) == ~Has(obj, key) \/ obj[key] = ""

(***************************************************************************)
(* Bounds and input sets                                                   *)
(***************************************************************************)

\* Longest upstream results array.
MaxResults == 2

\* Longest sequence of result elements in a page of the secondary service.
MaxElements == 2

\* Largest value a caller gives to an option other than min_similarity.
MaxOptionValue == 1

\* The image arguments: strings, a ReadStream, a Buffer, anything else.
\* A string that is no URL names a file that can be opened.
ImageStrings ==
  { <<"h", "t", "t", "p", ":", "/", "/", "a">>,
    <<"h", "t", "t", "p", "s", ":", "/", "/", "a">>,
    <<"h", "t", "t", "p", "s", "s", ":", "a">>,
    <<"H", "T", "T", "P", ":", "/", "/", "a">>,
    <<"a", "h", "t", "t", "p", ":">>,
    <<"h", "t", "t", "p">>,
    <<"/", "a", ".", "p", "n", "g">> }

Images ==
  { [type |-> "string", value |-> s] : s \in ImageStrings }
    \cup { [type |-> "ReadStream", value |-> <<"s">>],
           [type |-> "Buffer", value |-> <<"b">>],
           [type |-> "number", value |-> <<"1">>],
           [type |-> "undefined", value |-> Undefined] }

\* The search options of SaucenaoOptions, in the order a caller writes them.
OptionOrder ==
  <<"output_type", "dbmask", "dbmaski", "db", "numres", "hide", "min_similarity">>

OptionNames == { OptionOrder[i] : i \in 1..Len(OptionOrder) }

\* The thresholds a caller asks for (percent).
MinSimilarityValues == {0, 60, 80, 96}

\* The overrides of the search runs: the threshold alone, or nothing.
ThresholdOverrides ==
  { [k \in {} |-> 0] } \cup { [min_similarity |-> m] : m \in MinSimilarityValues }

\* The overrides of the option-merge runs: any subset of the options, each
\* with a number.
FieldOverrides ==
  UNION { [S -> 0..MaxOptionValue] : S \in SUBSET OptionNames }

ApiKeys == {"", "key"}

\* Options of build "index" may carry the key (SaucenaoOptions.api_key).
WithApiKey(os) ==
  os \cup { Spread(o, [api_key |-> k]) : o \in os, k \in ApiKeys }

(***************************************************************************)
(* The client                                                              *)
(***************************************************************************)

Builds == {"part", "index"}

\* What a caller passes to the constructor: either key, or none.
ConstructorOptions ==
  { [k \in {} |-> ""] }
    \cup { [saucenaoKey |-> k] : k \in ApiKeys }
    \cup { [imgurKey |-> "client"] }
    \cup { [saucenaoKey |-> "key", imgurKey |-> "client"] }

\* `Client-ID ${this.options.imgurKey}`: the template prints an absent key
\* as the text undefined.
Authorization(options) ==
  <<"Client-ID ", IF Has(options, "imgurKey") THEN options.imgurKey ELSE "undefined">>

\* new Api(options).  dOptions holds only the default headers, which no
\* operation modelled here reads back.
Constructor(build, options) ==
  [build |-> build,
   options |-> options,
   searchEngines |-> <<"https://saucenao.com", "http://www.iqdb.org">>,
   imgurBaseConfig |->
     [url |-> "https://api.imgur.com/3/image",
      Authorization |-> Authorization(options)]]

saucenaoDefaultOptions ==
  [output_type |-> 2, db |-> 999, numres |-> 10, hide |-> 3, min_similarity |-> 0]

(***************************************************************************)
(* Request building                                                        *)
(***************************************************************************)

\* The expression without its anchor, /https?:/.
TestHttpAnywhere(s) ==
  \E i \in 1..Len(s) :
    \E n \in {5, 6} :
      /\ i + n - 1 <= Len(s)
      /\ SubSeq(s, i, i + n - 1) \in { <<"h", "t", "t", "p", ":">>,
                                       <<"h", "t", "t", "p", "s", ":">> }

\* The regular expression /^https?:/ run over the characters of s:
\* 'h' 't' 't' 'p', then an optional 's', then ':'.
TestHttpPrefix(s) ==
  /\ Len(s) >= 5
  /\ s[1] = "h" /\ s[2] = "t" /\ s[3] = "t" /\ s[4] = "p"
  /\ LET rest == IF s[5] = "s" THEN 6 ELSE 5
     IN  Len(s) >= rest /\ s[rest] = ":"

\* The chain without its last else: whatever is no stream and no string is
\* attached like a buffer.
AttachImageUnchecked(data, image) ==
  IF image.type = "ReadStream"
    THEN [thrown |-> FALSE,
          data |-> Append(data, [name |-> "file", value |-> [from |-> "stream", of |-> image.value]])]
  ELSE IF image.type = "string"
    THEN IF TestHttpPrefix(image.value)
           THEN [thrown |-> FALSE,
                 data |-> Append(data, [name |-> "url", value |-> [from |-> "text", of |-> image.value]])]
           ELSE [thrown |-> FALSE,
                 data |-> Append(data, [name |-> "file", value |-> [from |-> "createReadStream", of |-> image.value]])]
  ELSE [thrown |-> FALSE,
        data |-> Append(data, [name |-> "file", value |-> [from |-> "buffer", of |-> image.value]])]

\* The if/else chain that attaches the image to the form: the form with one
\* field appended, or the form unchanged and thrown = TRUE.
AttachImage(data, image) ==
  IF image.type = "ReadStream"
    THEN [thrown |-> FALSE,
          data |-> Append(data, [name |-> "file", value |-> [from |-> "stream", of |-> image.value]])]
  ELSE IF image.type = "string"
    THEN IF TestHttpPrefix(image.value)
           THEN [thrown |-> FALSE,
                 data |-> Append(data, [name |-> "url", value |-> [from |-> "text", of |-> image.value]])]
           ELSE [thrown |-> FALSE,
                 data |-> Append(data, [name |-> "file", value |-> [from |-> "createReadStream", of |-> image.value]])]
  ELSE IF image.type = "Buffer"
    THEN [thrown |-> FALSE,
          data |-> Append(data, [name |-> "file", value |-> [from |-> "buffer", of |-> image.value]])]
  ELSE [thrown |-> TRUE, data |-> data]

\* Object.entries(opts): the keys of the defaults first, then the keys the
\* caller added, then api_key.
EntryOrder ==
  <<"output_type", "db", "numres", "hide", "min_similarity", "dbmask", "dbmaski", "api_key">>

RECURSIVE AppendEntries(_, _, _)
\* Object.entries(opts).map(opt => data.append(opt[0], opt[1])), from key i.
AppendEntries(data, opts, i) ==
  IF i > Len(EntryOrder) THEN data
  ELSE IF Has(opts, EntryOrder[i])
    THEN AppendEntries(
           Append(data, [name |-> EntryOrder[i], value |-> [from |-> "option", of |-> opts[EntryOrder[i]]]]),
           opts, i + 1)
  ELSE AppendEntries(data, opts, i + 1)

\* build "part": opts = { ...saucenaoDefaultOptions, ...options, api_key }.
\* The key is read from the constructor's options; with none configured
\* the call throws before opts is used, so opts then carries no api_key.
EffectiveOptionsPart(client, options) ==
  IF Has(client.options, "saucenaoKey")
    THEN Spread(Spread(saucenaoDefaultOptions, options),
                [api_key |-> client.options.saucenaoKey])
    ELSE Spread(saucenaoDefaultOptions, options)

\* build "index": opts = { ...saucenaoDefaultOptions, ...options }.
EffectiveOptionsIndex(client, options) ==
  Spread(saucenaoDefaultOptions, options)

EffectiveOptions(client, options) ==
  IF client.build = "part" THEN EffectiveOptionsPart(client, options)
  ELSE EffectiveOptionsIndex(client, options)

\* build "part": if (!this.options.saucenaoKey) throw ...
KeyMissingPart(client, options) == Falsy(client.options, "saucenaoKey")

\* build "index": if (!opts.api_key) throw ...
KeyMissingIndex(client, options) ==
  Falsy(EffectiveOptionsIndex(client, options), "api_key")

KeyMissing(client, options) ==
  IF client.build = "part" THEN KeyMissingPart(client, options)
  ELSE KeyMissingIndex(client, options)

(***************************************************************************)
(* The primary service: upstream data                                      *)
(***************************************************************************)

Sim9500 == <<"9", "5", ".", "0", "0">>
Sim6000 == <<"6", "0", ".", "0", "0">>
Sim8000 == <<"8", "0">>
Sim5990 == <<"5", "9", ".", "9">>
Sim7999 == <<"7", "9", ".", "9", "9">>
Sim0 == <<"0">>
Sim9650 == <<"9", "6", ".", "5">>
Sim10000 == <<"1", "0", "0">>
Sim9599 == <<"9", "5", ".", "9", "9">>

\* The entries upstream ranks: header.similarity is a numeric string on the
\* percent scale, header.index_id the index the match came from.
UpstreamEntries ==
  { [similarity |-> Sim9500, index_id |-> 5],
    [similarity |-> Sim6000, index_id |-> 9],
    [similarity |-> Sim8000, index_id |-> 25],
    [similarity |-> Sim5990, index_id |-> 28],
    [similarity |-> Sim7999, index_id |-> 34],
    [similarity |-> Sim0, index_id |-> 39],
    [similarity |-> Sim9650, index_id |-> 41],
    [similarity |-> Sim10000, index_id |-> 0],
    [similarity |-> Sim9599, index_id |-> 40] }

ResultArrays == UNION { [1..n -> UpstreamEntries] : n \in 0..MaxResults }

\* response.data of a resolved search: the results array, or a body without
\* one.
SearchBodies(arrays) ==
  { [results |-> rs] : rs \in arrays } \cup { [header |-> "status"] }

\* The errors axios rejects with: a non-success response, or no response at
\* all (the request never got one).
TransportErrors ==
  { [response |-> [status |-> 403, statusText |-> "Forbidden"]],
    [response |-> [status |-> 401, statusText |-> "Unauthorized"]],
    [response |-> [status |-> 429, statusText |-> "Too Many Requests"]],
    [response |-> [status |-> 500, statusText |-> "Internal Server Error"]],
    [code |-> "ECONNREFUSED"] }

(***************************************************************************)
(* The primary service: response normalisation                             *)
(***************************************************************************)

RECURSIVE SkipSpaces(_, _)
SkipSpaces(s, i) ==
  IF i <= Len(s) /\ s[i] = " " THEN SkipSpaces(s, i + 1) ELSE i

RECURSIVE ScanDigits(_, _, _, _)
\* The run of digits of s from position i: where it ends, its value on top
\* of acc, and how many digits it has.
ScanDigits(s, i, acc, count) ==
  IF i <= Len(s) /\ IsDigit(s[i])
    THEN ScanDigits(s, i + 1, acc * 10 + DigitValue(s[i]), count + 1)
    ELSE [pos |-> i, value |-> acc, count |-> count]

RECURSIVE Pow10(_)
Pow10(n) == IF n = 0 THEN 1 ELSE 10 * Pow10(n - 1)

\* parseFloat(s) for decimal literals: leading blanks, a sign, digits, a
\* fraction; whatever follows is ignored; NaN when no digit is found.  The
\* number is num / den.
ParseFloat(s) ==
  LET start == SkipSpaces(s, 1)
      neg == start <= Len(s) /\ s[start] = "-"
      signed == start <= Len(s) /\ s[start] \in {"-", "+"}
      int == ScanDigits(s, IF signed THEN start + 1 ELSE start, 0, 0)
      dot == int.pos <= Len(s) /\ s[int.pos] = "."
      frac == IF dot THEN ScanDigits(s, int.pos + 1, int.value, 0)
              ELSE [pos |-> int.pos, value |-> int.value, count |-> 0]
  IN  IF int.count + frac.count = 0
        THEN [nan |-> TRUE, num |-> 0, den |-> 1]
        ELSE [nan |-> FALSE,
              num |-> IF neg THEN 0 - frac.value ELSE frac.value,
              den |-> Pow10(frac.count)]

\* The comparison written with > in place of >=.
AtLeastThresholdStrict(item, min_similarity) ==
  LET f == ParseFloat(item.similarity)
  IN  ~f.nan /\ f.num > min_similarity * f.den

\* parseFloat(item.header.similarity) >= opts.min_similarity
AtLeastThreshold(item, min_similarity) ==
  LET f == ParseFloat(item.similarity)
  IN  ~f.nan /\ f.num >= min_similarity * f.den

RECURSIVE FilterResults(_, _)
\* response.data.results.filter(...)
FilterResults(results, min_similarity) ==
  IF results = <<>> THEN <<>>
  ELSE IF AtLeastThreshold(Head(results), min_similarity)
    THEN <<Head(results)>> \o FilterResults(Tail(results), min_similarity)
  ELSE FilterResults(Tail(results), min_similarity)

\* The switch with the case of index 41 left out.
SourceOfWithoutTwitter(index_id) ==
  CASE index_id = 5 -> "Pixiv"
    [] index_id = 9 -> "Danbooru"
    [] index_id = 25 -> "Gelbooru"
    [] index_id = 28 -> "Anime-Pictures"
    [] index_id = 34 -> "DevianArt"
    [] index_id = 39 -> "ArtStation"
    [] OTHER -> "Unknown"

\* The switch of getSource on header.index_id.
SourceOf(index_id) ==
  CASE index_id = 5 -> "Pixiv"
    [] index_id = 9 -> "Danbooru"
    [] index_id = 25 -> "Gelbooru"
    [] index_id = 28 -> "Anime-Pictures"
    [] index_id = 34 -> "DevianArt"
    [] index_id = 39 -> "ArtStation"
    [] index_id = 41 -> "Twitter"
    [] OTHER -> "Unknown"

\* getSource(options): header.source of every entry is overwritten.
getSource(options) ==
  [i \in 1..Len(options) |->
     [similarity |-> options[i].similarity,
      index_id |-> options[i].index_id,
      source |-> SourceOf(options[i].index_id)]]

\* The catch handler of saucenao's axios call.  Reading err.response.status
\* with no response is a TypeError (build "part" guards only the first read
\* with ?., build "index" none).  Build "part" also prints err on the
\* console, which no state here records.
SaucenaoCatch(err) ==
  IF Has(err, "response") /\ err.response.status = 403
    THEN [kind |-> "throw", error |-> "InvalidCredential",
          status |-> err.response.status, statusText |-> err.response.statusText]
  ELSE IF Has(err, "response")
    THEN [kind |-> "throw", error |-> "UpstreamError",
          status |-> err.response.status, statusText |-> err.response.statusText]
  ELSE [kind |-> "throw", error |-> "TypeError", status |-> 0, statusText |-> ""]

\* saucenao after a resolved request: filter, label (build "part"), return.
SaucenaoReturn(client, opts, body) ==
  IF ~Has(body, "results")
    THEN [kind |-> "throw", error |-> "TypeError", status |-> 0, statusText |-> ""]
  ELSE LET results == FilterResults(body.results, opts.min_similarity)
       IN  [kind |-> "return",
            value |-> IF client.build = "part" THEN getSource(results) ELSE results]

(***************************************************************************)
(* State                                                                   *)
(***************************************************************************)

NoCall == [op |-> "none"]
NoRequest == [method |-> "none"]
NoResponse == [settled |-> "none"]
NoResult == [kind |-> "none"]

\* The options each revision's DefaultOptions declares.
Clients ==
  { Constructor("part", o) : o \in { c \in ConstructorOptions : ~Has(c, "imgurKey") } }
    \cup { Constructor("index", o) : o \in ConstructorOptions }

Init ==
  /\ api \in Clients
  /\ pc = "idle"
  /\ call = NoCall
  /\ request = NoRequest
  /\ sent = 0
  /\ response = NoResponse
  /\ result = NoResult
  /\ handle = "none"

\* The form holds a stream that createReadStream(image) made.
OpensHandle(data) ==
  \E i \in 1..Len(data) : data[i].value.from = "createReadStream"

\* axios(config): the transport is invoked with the request.  The handle of
\* a path image was opened when the form was built.
Send(config) ==
  /\ request' = config
  /\ sent' = sent + 1
  /\ pc' = "awaiting"
  /\ handle' = IF OpensHandle(config.data) THEN "open" ELSE "none"
  /\ UNCHANGED <<response, result>>

\* The method ends before its await: nothing was sent.
EndEarly(outcome) ==
  /\ result' = outcome
  /\ pc' = "done"
  /\ UNCHANGED <<request, sent, response, handle>>

\* The method ends after its await.  Nothing on the way closes the handle.
End(settled, outcome) ==
  /\ response' = settled
  /\ result' = outcome
  /\ pc' = "done"
  /\ UNCHANGED <<api, call, request, sent, handle>>

\* The transport reads the request body to its end while the call awaits
\* it: the stream of a path image ends and closes its handle.
BodyRead ==
  /\ pc = "awaiting"
  /\ handle = "open"
  /\ handle' = "closed"
  /\ UNCHANGED <<api, pc, call, request, sent, response, result>>

\* A service answers a search only after it has the whole request body; a
\* request can fail at any time.
BodyDelivered == handle # "open"

Thrown(error) ==
  [kind |-> "throw", error |-> error, status |-> 0, statusText |-> ""]

(***************************************************************************)
(* saucenao(image, options)                                                *)
(***************************************************************************)

\* saucenao up to `await axios(config)`.
SaucenaoBegin(image, options) ==
  LET opts == EffectiveOptions(api, options)
      form == AttachImage(AppendEntries(<<>>, opts, 1), image)
  IN  /\ call' = [op |-> "saucenao", image |-> image, options |-> options]
      /\ UNCHANGED api
      /\ IF KeyMissing(api, options)
           THEN EndEarly(Thrown("MissingCredential"))
         ELSE IF form.thrown
           THEN EndEarly(Thrown("InvalidInputKind"))
         ELSE Send([method |-> "post",
                    url |-> <<api.searchEngines[1], "/search.php">>,
                    data |-> form.data])

Saucenao(images, overrides) ==
  /\ pc = "idle"
  /\ \E image \in images :
       \E options \in IF api.build = "index" THEN WithApiKey(overrides) ELSE overrides :
         SaucenaoBegin(image, options)

\* The request resolves or rejects, and saucenao runs to its end.
SaucenaoSettle(arrays) ==
  /\ pc = "awaiting"
  /\ call.op = "saucenao"
  /\ \/ \E body \in SearchBodies(arrays) :
          /\ BodyDelivered
          /\ End([settled |-> "resolve", data |-> body],
              SaucenaoReturn(api, EffectiveOptions(api, call.options), body))
     \/ \E err \in TransportErrors :
          End([settled |-> "reject", err |-> err], SaucenaoCatch(err))

(***************************************************************************)
(* iqdb(image)                                                             *)
(***************************************************************************)

HrefRelative == <<"/", "/", "d", ".", "o", "r", "g", "/", "1">>
HrefHttp == <<"h", "t", "t", "p", ":", "/", "/", "b">>
HrefHttps == <<"h", "t", "t", "p", "s", ":", "/", "/", "c">>
HrefInner == <<"/", "r", "?", "u", "=", "h", "t", "t", "p">>
HrefNear == <<"/", "h", "t", "t", "/", "p">>
HrefUpper == <<"H", "T", "T", "P", ":", "/", "/", "e">>

\* A result element `div.pages#pages div` as its selectors read it:
\*   firstRow   el('table > tbody > tr:nth-child(1)').text()
\*   href       el('td.image > a').attr('href'), undefined without anchor
\*   similarity el('table > tbody > tr:nth-child(5) > td').text()
\*   service2   el('table > tbody > tr:nth-child(3) > td > *:last-child').text()
\*   service1   el('table > tbody > tr:nth-child(3) > td').text()
\* text() of a selection that matches nothing is ''.
ResultElements ==
  { [firstRow |-> "Your image", href |-> Undefined, similarity |-> "",
     service2 |-> "", service1 |-> ""],
    [firstRow |-> "Your image", href |-> HrefRelative, similarity |-> "99% similarity",
     service2 |-> "", service1 |-> "echo"],
    [firstRow |-> "Best match", href |-> HrefRelative, similarity |-> "95% similarity",
     service2 |-> "Danbooru", service1 |-> "Danbooru"],
    [firstRow |-> "Additional match", href |-> HrefHttps, similarity |-> "88% similarity",
     service2 |-> "", service1 |-> "Zerochan"],
    [firstRow |-> "Possible match", href |-> HrefHttp, similarity |-> "61% similarity",
     service2 |-> "Gelbooru", service1 |-> "Konachan Gelbooru"],
    [firstRow |-> "your image", href |-> HrefInner, similarity |-> "55% similarity",
     service2 |-> "e-shuushuu", service1 |-> "e-shuushuu"],
    [firstRow |-> "Your image ", href |-> HrefNear, similarity |-> "",
     service2 |-> "", service1 |-> "yande.re"],
    [firstRow |-> "Possible match", href |-> HrefUpper, similarity |-> "50% similarity",
     service2 |-> "", service1 |-> ""],
    [firstRow |-> "No relevant matches", href |-> Undefined, similarity |-> "",
     service2 |-> "", service1 |-> ""] }

\* The pages of the secondary service: the result elements in document order.
Pages == UNION { [1..n -> ResultElements] : n \in 0..MaxElements }

RECURSIVE IndexOf(_, _, _)
\* s.indexOf(sub) scanning from position i: 0 when sub does not occur.
IndexOf(s, sub, i) ==
  IF i + Len(sub) - 1 > Len(s) THEN 0
  ELSE IF SubSeq(s, i, i + Len(sub) - 1) = sub THEN i
  ELSE IndexOf(s, sub, i + 1)

\* url?.includes(sub): undefined (falsy) when url is undefined.
Includes(url, sub) == url # Undefined /\ IndexOf(url, sub, 1) > 0

\* 'http:' + href: an undefined href is concatenated as its text.
PrefixHttp(href) ==
  <<"h", "t", "t", "p", ":">> \o (IF href = Undefined THEN UndefinedText ELSE href)

\* The test written as startsWith('http') in place of includes.
ResolveUrlByPrefix(href) ==
  IF href # Undefined /\ IndexOf(href, <<"h", "t", "t", "p">>, 1) = 1
    THEN href
    ELSE PrefixHttp(href)

\* url = url?.includes('https') || url?.includes('http') ? href : 'http:' + href
ResolveUrl(href) ==
  IF Includes(href, <<"h", "t", "t", "p", "s">>) \/ Includes(href, <<"h", "t", "t", "p">>)
    THEN href
    ELSE PrefixHttp(href)

\* The comparison made after trimming and lower-casing the text.
IsYourImageLoose(e) == e.firstRow \in {"Your image", "your image", "Your image "}

\* if (el(isYourImage).text() == 'Your image') return;
IsYourImage(e) == e.firstRow = "Your image"

\* The record pushed for one result element.
ImageRecord(e) ==
  [url |-> ResolveUrl(e.href),
   similarity |-> e.similarity,
   service |-> IF e.service2 # "" THEN e.service2 ELSE e.service1]

RECURSIVE ScrapeFrom(_, _, _)
\* $('div.pages#pages div').each(...): the callback run on the elements from
\* position i on, images being what was pushed so far.
ScrapeFrom(elements, i, images) ==
  IF i > Len(elements) THEN images
  ELSE IF IsYourImage(elements[i]) THEN ScrapeFrom(elements, i + 1, images)
  ELSE ScrapeFrom(elements, i + 1, Append(images, ImageRecord(elements[i])))

Scrape(elements) == ScrapeFrom(elements, 1, <<>>)

\* iqdb up to `await axios(config)`.
IqdbBegin(image) ==
  LET form == AttachImage(<<>>, image)
  IN  /\ call' = [op |-> "iqdb", image |-> image]
      /\ UNCHANGED api
      /\ IF form.thrown
           THEN EndEarly(Thrown("InvalidInputKind"))
           ELSE Send([method |-> "POST",
                      url |-> <<api.searchEngines[2]>>,
                      data |-> form.data])

Iqdb ==
  /\ pc = "idle"
  /\ \E image \in Images : IqdbBegin(image)

\* The request resolves with a page, or rejects: iqdb has no catch handler,
\* the rejection of axios is the rejection of iqdb.
IqdbSettle ==
  /\ pc = "awaiting"
  /\ call.op = "iqdb"
  /\ \/ \E html \in Pages :
          /\ BodyDelivered
          /\ End([settled |-> "resolve", data |-> html],
              [kind |-> "return", value |-> Scrape(html)])
     \/ \E err \in TransportErrors :
          End([settled |-> "reject", err |-> err], Thrown("AxiosError"))

(***************************************************************************)
(* uploadToImgur(file), build "index"                                      *)
(***************************************************************************)

Base64Files == {"", "aGk="}

\* The body the host answers a failed upload with: its JSON error envelope,
\* or a body that is no envelope (a gateway's text).
ErrorPayloads(status) ==
  { [data |-> [error |-> "upstream says no"], success |-> FALSE, status |-> status],
    [text |-> "gateway"] }

UploadStatuses == {400, 401, 403, 429, 500}

UploadErrors ==
  UNION { { [response |-> [status |-> st, data |-> p]] : p \in ErrorPayloads(st) } :
          st \in UploadStatuses }
    \cup { [code |-> "ECONNREFUSED"] }

\* The body of a resolved upload.
UploadBodies ==
  { [status |-> 200, success |-> TRUE,
     data |-> [id |-> "id", link |-> "link", deletehash |-> "hash"]],
    [status |-> 200, success |-> FALSE, data |-> [error |-> "refused"]] }

\* const { a, b } = obj, written as the object of the properties found:
\* a property that is undefined is left out.
Pick(obj, keys) == [k \in keys \cap DOMAIN obj |-> obj[k]]

\* uploadToImgur from `const { status, data, success } = request?.data` on,
\* request being what the awaited expression gave.
UploadReturn(req) ==
  IF ~Has(req, "data")
    THEN Thrown("TypeError")
  ELSE IF ~(Has(req.data, "success") /\ req.data.success)
    THEN [kind |-> "return", value |-> Pick(req.data, {"status", "success"})]
  ELSE IF ~Has(req.data, "data")
    THEN Thrown("TypeError")
  ELSE [kind |-> "return",
        value |-> Spread(Pick(req.data.data, {"id", "link", "deletehash"}),
                         Pick(req.data, {"status"}))]

\* The catch handler of uploadToImgur's axios call: it throws, or hands
\* err.response.data to the rest of the method as the awaited value.
UploadCatch(err) ==
  IF ~Has(err, "response") THEN Thrown("TypeError")
  ELSE IF err.response.status = 401
    THEN [kind |-> "throw", error |-> "MissingCredential", status |-> 401,
          statusText |-> "You need an Imgur Client-ID to upload an image."]
  ELSE IF err.response.status = 403
    THEN IF Has(err.response.data, "data")
           THEN [kind |-> "throw", error |-> "UpstreamError", status |-> 403,
                 statusText |-> err.response.data.data.error]
           ELSE Thrown("TypeError")
  ELSE UploadReturn(err.response.data)

\* uploadToImgur up to `await axios(config)`: no check precedes the request.
UploadToImgur ==
  /\ pc = "idle"
  /\ api.build = "index"
  /\ \E file \in Base64Files :
       /\ call' = [op |-> "uploadToImgur", file |-> file]
       /\ UNCHANGED api
       /\ Send([method |-> "post",
                url |-> <<api.imgurBaseConfig.url>>,
                data |-> <<[name |-> "image", value |-> [from |-> "base64", of |-> file]],
                           [name |-> "type", value |-> [from |-> "base64", of |-> "base64"]]>>,
                headers |-> api.imgurBaseConfig.Authorization])

UploadSettle ==
  /\ pc = "awaiting"
  /\ call.op = "uploadToImgur"
  /\ \/ \E body \in UploadBodies :
          /\ BodyDelivered
          /\ End([settled |-> "resolve", data |-> body], UploadReturn([data |-> body]))
     \/ \E err \in UploadErrors :
          End([settled |-> "reject", err |-> err], UploadCatch(err))

\* The caller has the outcome of the call; the client is ready for the
\* next one.
CallerContinues ==
  /\ pc = "done"
  /\ pc' = "idle"
  /\ call' = NoCall
  /\ request' = NoRequest
  /\ sent' = 0
  /\ response' = NoResponse
  /\ result' = NoResult
  /\ handle' = "none"
  /\ UNCHANGED api

Next ==
  \/ Saucenao(Images, ThresholdOverrides)
  \/ SaucenaoSettle(ResultArrays)
  \/ Iqdb
  \/ IqdbSettle
  \/ UploadToImgur
  \/ UploadSettle
  \/ BodyRead
  \/ CallerContinues

Spec == Init /\ [][Next]_vars

(***************************************************************************)
(* The option merge on its own: every override of the seven options, one   *)
(* remote image, the shortest upstream answers.                            *)
(***************************************************************************)

OptionImages == { [type |-> "string", value |-> <<"h", "t", "t", "p", ":", "/", "/", "a">>] }

OptionArrays == { <<>> }

InitOptions ==
  /\ Init
  /\ api \in { Constructor("part", [saucenaoKey |-> "key"]),
               Constructor("index", [k \in {} |-> ""]) }

NextOptions ==
  \/ Saucenao(OptionImages, FieldOverrides)
  \/ SaucenaoSettle(OptionArrays)
  \/ CallerContinues

SpecOptions == InitOptions /\ [][NextOptions]_vars

(***************************************************************************)
(* Reading the state                                                       *)
(***************************************************************************)

\* The values of the form fields called name, in append order.
RECURSIVE FieldValues(_, _)
FieldValues(data, name) ==
  IF data = <<>> THEN <<>>
  ELSE IF Head(data).name = name
    THEN <<Head(data).value>> \o FieldValues(Tail(data), name)
  ELSE FieldValues(Tail(data), name)

InCall(op) == call.op = op

Requested == request # NoRequest

Failed(error) == pc = "done" /\ result.kind = "throw" /\ result.error = error

(***************************************************************************)
(* Properties                                                              *)
(***************************************************************************)

\* C1: on a client constructed without saucenaoKey a saucenao() call fails
\* with MissingCredential before any network call: whatever the image and
\* the options, the transport is invoked zero times on that call.
C1_NoKeyNoTransport ==
  (InCall("saucenao") /\ ~Has(api.options, "saucenaoKey"))
    => (sent = 0 /\ ~Requested)

\* The same for the revision that reads the key from the constructor
\* (build "part"), an absent and an empty key alike.
PartNoKeyNoTransport ==
  (InCall("saucenao") /\ api.build = "part" /\ Falsy(api.options, "saucenaoKey"))
    => (sent = 0 /\ ~Requested /\ Failed("MissingCredential"))

\* The number a similarity text of the upstream data stands for, in
\* hundredths of a percent.
Hundredths(text) ==
  CASE text = Sim9500 -> 9500
    [] text = Sim6000 -> 6000
    [] text = Sim8000 -> 8000
    [] text = Sim5990 -> 5990
    [] text = Sim7999 -> 7999
    [] text = Sim0 -> 0
    [] text = Sim9650 -> 9650
    [] text = Sim10000 -> 10000
    [] text = Sim9599 -> 9599

\* The min_similarity in effect in the current call: the value sent.
MinSimilaritySent == FieldValues(request.data, "min_similarity")[1].of

Retained(entry) == Hundredths(entry.similarity) >= 100 * MinSimilaritySent

\* A resolved search whose body has a results array: the call returned.
SearchReturned ==
  /\ pc = "done"
  /\ InCall("saucenao")
  /\ response.settled = "resolve"
  /\ Has(response.data, "results")

SameEntry(returned, upstream) ==
  /\ returned.similarity = upstream.similarity
  /\ returned.index_id = upstream.index_id

\* C2: for every upstream results array (similarities numeric, 0 to 100)
\* and every min_similarity in effect, saucenao() returns exactly the
\* entries whose similarity is >= min_similarity, in upstream order; with
\* min_similarity = 0 every entry is returned.
C2_FilterExact ==
  SearchReturned =>
    LET kept == SelectSeq(response.data.results, Retained)
    IN  /\ result.kind = "return"
        /\ Len(result.value) = Len(kept)
        /\ \A i \in 1..Len(kept) : SameEntry(result.value[i], kept[i])
        /\ MinSimilaritySent = 0 => Len(result.value) = Len(response.data.results)

\* Scenario A: a remote image, upstream ranks "95.00" (index 5) before
\* "60.00" (index 9), min_similarity 80: the first entry alone is returned.
C2_Witness ==
  /\ SearchReturned
  /\ call.image.value = <<"h", "t", "t", "p", ":", "/", "/", "a">>
  /\ MinSimilaritySent = 80
  /\ response.data.results = <<[similarity |-> Sim9500, index_id |-> 5],
                               [similarity |-> Sim6000, index_id |-> 9]>>
  /\ Len(result.value) = 1
  /\ result.value[1].similarity = Sim9500

\* The table of section 4.3.
SourceTable ==
  (5 :> "Pixiv") @@ (9 :> "Danbooru") @@ (25 :> "Gelbooru") @@ (28 :> "Anime-Pictures")
    @@ (34 :> "DevianArt") @@ (39 :> "ArtStation") @@ (41 :> "Twitter")

\* C3: every entry saucenao() returns (in the revision that labels, build
\* "part") has the source the table gives its index id, and "Unknown" when
\* the table has no row for it.
C3_SourceLabels ==
  (SearchReturned /\ api.build = "part") =>
    \A i \in 1..Len(result.value) :
      LET id == result.value[i].index_id
      IN  result.value[i].source =
            IF id \in DOMAIN SourceTable THEN SourceTable[id] ELSE "Unknown"

\* A returned array with an entry of the table's last row and one of an
\* index next to it that the table does not have.
C3_Witness ==
  /\ SearchReturned
  /\ api.build = "part"
  /\ Len(result.value) = 2
  /\ result.value[1].index_id = 41 /\ result.value[1].source = "Twitter"
  /\ result.value[2].index_id = 40 /\ result.value[2].source = "Unknown"

\* A search request is out: saucenao passed its checks.
SearchSent == InCall("saucenao") /\ Requested

\* C4 as stated: each of the seven options has a value in the option set
\* that saucenao() sends.
C4_EveryOptionSent ==
  SearchSent =>
    \A name \in OptionNames : Len(FieldValues(request.data, name)) = 1

\* C4 as amended: the option set sent is the defaults with every field the
\* caller gave replaced by the caller's value; output_type, db, numres, hide
\* and min_similarity always have a value; dbmask and dbmaski, which have
\* no default, are sent exactly when the caller gave them.
C4_MergedOptions ==
  SearchSent =>
    \A name \in OptionNames :
      LET values == FieldValues(request.data, name)
      IN  IF Has(call.options, name)
            THEN Len(values) = 1 /\ values[1].of = call.options[name]
          ELSE IF name \in {"output_type", "db", "numres", "hide", "min_similarity"}
            THEN Len(values) = 1 /\ values[1].of = saucenaoDefaultOptions[name]
          ELSE values = <<>>

\* The caller overrides db, numres and dbmask and nothing else.
C4_Witness ==
  /\ SearchSent
  /\ DOMAIN call.options \cap OptionNames = {"db", "numres", "dbmask"}
  /\ call.options["db"] = 1
  /\ FieldValues(request.data, "db")[1].of = 1
  /\ FieldValues(request.data, "hide")[1].of = 3
  /\ FieldValues(request.data, "dbmaski") = <<>>

\* The image matches ^https?: - said by its leading characters.
StartsWithScheme(s) ==
  \/ Len(s) >= 5 /\ SubSeq(s, 1, 5) = <<"h", "t", "t", "p", ":">>
  \/ Len(s) >= 6 /\ SubSeq(s, 1, 6) = <<"h", "t", "t", "p", "s", ":">>

\* C5: every request of saucenao() or iqdb() carries exactly one image
\* attachment: the field url exactly when the image is a string matching
\* ^https?:, the field file for any other string, a stream or a buffer.
C5_OneAttachment ==
  ((InCall("saucenao") \/ InCall("iqdb")) /\ Requested) =>
    LET urls == FieldValues(request.data, "url")
        files == FieldValues(request.data, "file")
        remote == call.image.type = "string" /\ StartsWithScheme(call.image.value)
    IN  /\ Len(urls) + Len(files) = 1
        /\ call.image.type \in {"string", "ReadStream", "Buffer"}
        /\ remote <=> Len(urls) = 1
        /\ remote => urls[1].of = call.image.value
        /\ ~remote => files[1].of = call.image.value

\* A string that holds "http:" but does not start with it goes out as a file.
C5_Witness ==
  /\ InCall("iqdb")
  /\ pc = "awaiting"
  /\ call.image.value = <<"a", "h", "t", "t", "p", ":">>
  /\ FieldValues(request.data, "file") # <<>>
  /\ FieldValues(request.data, "url") = <<>>

\* The request of the current call was rejected by the transport.
Rejected(op) == pc = "done" /\ InCall(op) /\ response.settled = "reject"

\* C6: a rejected saucenao() request makes the call fail with
\* InvalidCredential when the response is a 403, and with UpstreamError
\* carrying the upstream status and status text on every other failure.
C6_FailureKinds ==
  Rejected("saucenao") =>
    LET err == response.err
    IN  /\ result.kind = "throw"
        /\ IF Has(err, "response") /\ err.response.status = 403
             THEN result.error = "InvalidCredential"
             ELSE result.error = "UpstreamError"
        /\ Has(err, "response") =>
             /\ result.status = err.response.status
             /\ result.statusText = err.response.statusText

\* The part of C6 about failures that carry a response.
SaucenaoResponseFailures ==
  (Rejected("saucenao") /\ Has(response.err, "response")) =>
    /\ result.kind = "throw"
    /\ result.error =
         IF response.err.response.status = 403 THEN "InvalidCredential" ELSE "UpstreamError"
    /\ result.status = response.err.response.status
    /\ result.statusText = response.err.response.statusText

\* The host answered the upload with a non-success status and its JSON
\* error envelope.
UploadRefused ==
  /\ Rejected("uploadToImgur")
  /\ Has(response.err, "response")
  /\ Has(response.err.response.data, "data")

\* C7: a refused upload fails with MissingCredential on status 401, fails
\* with UpstreamError carrying the upstream error message on status 403,
\* and on any other status returns the upstream error payload as it came.
C7_UploadFailures ==
  UploadRefused =>
    LET res == response.err.response
    IN  IF res.status = 401
          THEN result.kind = "throw" /\ result.error = "MissingCredential"
        ELSE IF res.status = 403
          THEN /\ result.kind = "throw"
               /\ result.error = "UpstreamError"
               /\ result.statusText = res.data.data.error
        ELSE result.kind = "return" /\ result.value = res.data

\* The 401 and 403 parts of C7.
UploadThrows ==
  (UploadRefused /\ response.err.response.status \in {401, 403}) =>
    /\ result.kind = "throw"
    /\ result.error =
         IF response.err.response.status = 401 THEN "MissingCredential" ELSE "UpstreamError"

ImageShapeAccepted == call.image.type \in {"string", "ReadStream", "Buffer"}

\* C8 as stated: in saucenao, iqdb and uploadToImgur a missing credential
\* and an image of an unaccepted shape make the call fail with
\* MissingCredential or InvalidInputKind before any request is issued; an
\* uploadToImgur() call on a client without imgurKey fails with
\* MissingCredential.
C8_EagerEverywhere ==
  /\ (Failed("MissingCredential") \/ Failed("InvalidInputKind")) => sent = 0
  /\ (InCall("uploadToImgur") /\ ~Has(api.options, "imgurKey")) =>
       (sent = 0 /\ Failed("MissingCredential"))

\* C8 as amended: saucenao and iqdb fail with MissingCredential or
\* InvalidInputKind only before any request is issued, and do fail so when
\* the key saucenao reads is missing (saucenaoKey of the constructor in
\* build "part", api_key of the call options in build "index") or the image
\* has an unaccepted shape; uploadToImgur checks nothing before its
\* request: it always issues it, and fails with MissingCredential exactly
\* when the host answers 401.
C8_EagerSearches ==
  /\ (InCall("saucenao") \/ InCall("iqdb")) =>
       /\ (Failed("MissingCredential") \/ Failed("InvalidInputKind"))
            => (sent = 0 /\ ~Requested)
       /\ ~ImageShapeAccepted =>
            /\ sent = 0
            /\ Failed("MissingCredential") \/ Failed("InvalidInputKind")
            /\ InCall("iqdb") => Failed("InvalidInputKind")
  /\ InCall("saucenao") =>
       LET missing == IF api.build = "part"
                        THEN Falsy(api.options, "saucenaoKey")
                        ELSE Falsy(call.options, "api_key")
       IN  /\ missing => (sent = 0 /\ Failed("MissingCredential"))
           /\ (~missing /\ ImageShapeAccepted) => sent = 1
  /\ InCall("uploadToImgur") =>
       /\ sent = 1
       /\ Failed("MissingCredential")
            <=> /\ Rejected("uploadToImgur")
                /\ Has(response.err, "response")
                /\ response.err.response.status = 401

\* An upload on a client without imgurKey: the request went out, the host
\* answered 401, the call failed with MissingCredential.
C8_Witness ==
  /\ InCall("uploadToImgur")
  /\ ~Has(api.options, "imgurKey")
  /\ sent = 1
  /\ request.headers = <<"Client-ID ", "undefined">>
  /\ Failed("MissingCredential")

\* A page of the secondary service came back and iqdb returned.
PageScraped ==
  /\ pc = "done"
  /\ InCall("iqdb")
  /\ response.settled = "resolve"

NotTheEcho(e) == e.firstRow # "Your image"

\* The result elements of the page that are no echo of the query image.
Matches == SelectSeq(response.data, NotTheEcho)

\* C9: no result element whose first-row text is exactly "Your image"
\* contributes to iqdb()'s output, and every other result element
\* contributes exactly one record, in document order.
C9_EchoSkipped ==
  PageScraped =>
    /\ result.kind = "return"
    /\ Len(result.value) = Len(Matches)
    /\ \A i \in 1..Len(Matches) :
         /\ result.value[i].similarity = Matches[i].similarity
         /\ result.value[i].service \in {Matches[i].service1, Matches[i].service2}

\* Scenario B with a near miss: the echo, then an element whose first row
\* reads "your image": one record, of the second element.
C9_Witness ==
  /\ PageScraped
  /\ Len(response.data) = 2
  /\ response.data[1].firstRow = "Your image"
  /\ response.data[1].href = HrefRelative
  /\ response.data[2].firstRow = "your image"
  /\ Len(result.value) = 1
  /\ result.value[1].similarity = "55% similarity"

\* The text http occurs in the link.
ContainsHttp(link) ==
  \E k \in 1..Len(link) :
    /\ k + 3 <= Len(link)
    /\ link[k] = "h" /\ link[k + 1] = "t" /\ link[k + 2] = "t" /\ link[k + 3] = "p"

\* C10: for every result element that iqdb() turns into a record and that
\* has a link, the url is the link prefixed with "http:" when the link does
\* not contain "http", and the link unchanged when it does.
C10_LinkScheme ==
  (PageScraped /\ Len(result.value) = Len(Matches)) =>
    \A i \in 1..Len(Matches) :
      LET link == Matches[i].href
      IN  link # Undefined =>
            result.value[i].url =
              IF ContainsHttp(link) THEN link ELSE <<"h", "t", "t", "p", ":">> \o link

\* A page with a protocol-relative link and one that holds http further in.
C10_Witness ==
  /\ PageScraped
  /\ Len(result.value) = 2
  /\ response.data[1].href = HrefRelative
  /\ result.value[1].url = <<"h", "t", "t", "p", ":">> \o HrefRelative
  /\ response.data[2].href = HrefInner
  /\ result.value[2].url = HrefInner

\* C11: a result element that lacks an expected part (no link anchor, no
\* similarity row, no service row) does not make iqdb() fail, and the
\* field of its record that the part would fill (url, similarity, service)
\* is the empty string.
C11_GapsGiveEmptyFields ==
  PageScraped =>
    /\ result.kind = "return"
    /\ Len(result.value) = Len(Matches)
    /\ \A i \in 1..Len(Matches) :
         /\ Matches[i].href = Undefined => result.value[i].url = <<>>
         /\ Matches[i].similarity = "" => result.value[i].similarity = ""
         /\ (Matches[i].service1 = "" /\ Matches[i].service2 = "")
              => result.value[i].service = ""

\* The parts of C11 other than the url: the call returns, and a missing
\* similarity or service row gives an empty similarity or service.
GapsKeepTheCallAlive ==
  PageScraped =>
    /\ result.kind = "return"
    /\ Len(result.value) = Len(Matches)
    /\ \A i \in 1..Len(Matches) :
         /\ Matches[i].similarity = "" => result.value[i].similarity = ""
         /\ (Matches[i].service1 = "" /\ Matches[i].service2 = "")
              => result.value[i].service = ""
         /\ Matches[i].href = Undefined
              => result.value[i].url = <<"h", "t", "t", "p", ":">> \o UndefinedText

\* The current call is a search whose image is a filesystem path.
PathImage ==
  /\ InCall("saucenao") \/ InCall("iqdb")
  /\ call.image.type = "string"
  /\ ~StartsWithScheme(call.image.value)

\* C12: a file handle that saucenao() or iqdb() opened for an image given as
\* a path is released within the call, on every path through it: no call
\* ends - with a result, a transport failure or a response mapped to an
\* error - while its handle is still open.
C12_HandleReleased ==
  (pc = "done" /\ (InCall("saucenao") \/ InCall("iqdb"))) => handle # "open"

\* A handle exists exactly for the requests of a path image, and a call
\* that ends with the service's answer ends with the handle closed.
HandleOfPathRequests ==
  /\ handle # "none" <=> (PathImage /\ Requested)
  /\ (pc = "done" /\ response.settled = "resolve") => handle # "open"

====
